---- MODULE Spec2Model ----
(***************************************************************************)
(* A model of fetch_sapsan.py: the per-day fetch/filter/price pipeline     *)
(* (fetch_day, _parse_travel_minutes, _combine_date_time,                  *)
(* _extract_min_price), the weekday consolidation (consolidate_quotes)     *)
(* and the loop of main.                                                   *)
(*                                                                         *)
(* Python strings are sequences of one-character strings, so that split,   *)
(* strip, lower and int() are computed and not assumed.  JSON values are   *)
(* tagged records: Absent (key not in the dict), None, Str(s), Num(n).     *)
(* The Cyrillic fare names are written transliterated.                     *)
(***************************************************************************)
EXTENDS Integers, Sequences, FiniteSets, TLC

VARIABLES
    \* main
    pc, start_date, days, offset, quotes_by_day, consolidated,
    stderr, output_written, exit_code,
    \* history of main: the outcome of fetch_day per offset, the number of
    \* assignments to each key of quotes_by_day, and the number of cells
    \* consolidate_quotes overwrote
    fetched, writes, replaced,
    \* one iteration of fetch_day's inner loop
    segment, train, departures, where,
    \* one whole call of fetch_day
    payload, day_result,
    \* the value of min_price at line 108
    min_price

vars == << pc, start_date, days, offset, quotes_by_day, consolidated,
           stderr, output_written, exit_code, fetched, writes, replaced,
           segment, train, departures, where, min_price,
           payload, day_result >>

mainVars == << pc, start_date, days, offset, quotes_by_day, consolidated,
               stderr, output_written, exit_code, fetched, writes, replaced >>
trainVars == << segment, train, departures, where, min_price >>
dayVars == << payload, day_result >>

-----------------------------------------------------------------------------
(* Bounds of the model *)

MaxCars == 2
MaxListings == 2
MaxDays == 8

-----------------------------------------------------------------------------
(* JSON values and Python's truthiness *)

Absent == [t |-> "absent"]
None == [t |-> "none"]
Str(s) == [t |-> "str", s |-> s]
Num(n) == [t |-> "num", n |-> n]
\* a date string: the format it is written in and the day it denotes
\* (days are counted from a Monday)
DateStr(fmt, day) == [t |-> "date", fmt |-> fmt, day |-> day]

\* dict.get(key): None for a missing key
Get(v) == IF v = Absent THEN None ELSE v

\* dict.get(key, default)
GetDefault(v, default) == IF v = Absent THEN default ELSE v

\* bool(v)
Truthy(v) ==
    CASE v.t = "str" -> v.s # << >>
      [] v.t = "num" -> v.n # 0
      [] v.t = "date" -> TRUE
      [] OTHER -> FALSE

\* a or b
Or(a, b) == IF Truthy(a) THEN a ELSE b

-----------------------------------------------------------------------------
(* Strings *)

Digits == {"0", "1", "2", "3", "4", "5", "6", "7", "8", "9"}

DigitVal(c) ==
    CASE c = "0" -> 0 [] c = "1" -> 1 [] c = "2" -> 2 [] c = "3" -> 3
      [] c = "4" -> 4 [] c = "5" -> 5 [] c = "6" -> 6 [] c = "7" -> 7
      [] c = "8" -> 8 [] c = "9" -> 9

DigitChar(n) ==
    CASE n = 0 -> "0" [] n = 1 -> "1" [] n = 2 -> "2" [] n = 3 -> "3"
      [] n = 4 -> "4" [] n = 5 -> "5" [] n = 6 -> "6" [] n = 7 -> "7"
      [] n = 8 -> "8" [] n = 9 -> "9"

UpperAlpha == << "A", "B", "C", "D", "E", "F", "G", "H", "I", "J", "K", "L", "M",
                 "N", "O", "P", "Q", "R", "S", "T", "U", "V", "W", "X", "Y", "Z" >>
LowerAlpha == << "a", "b", "c", "d", "e", "f", "g", "h", "i", "j", "k", "l", "m",
                 "n", "o", "p", "q", "r", "s", "t", "u", "v", "w", "x", "y", "z" >>

LowerChar(c) ==
    IF \E i \in 1..26 : UpperAlpha[i] = c
    THEN LowerAlpha[CHOOSE i \in 1..26 : UpperAlpha[i] = c]
    ELSE c

\* str.lower()
Lower(s) == [i \in 1..Len(s) |-> LowerChar(s[i])]

RECURSIVE LStrip(_)
LStrip(s) == IF s # << >> /\ s[1] = " " THEN LStrip(Tail(s)) ELSE s

RECURSIVE RStrip(_)
RStrip(s) ==
    IF s # << >> /\ s[Len(s)] = " " THEN RStrip(SubSeq(s, 1, Len(s) - 1)) ELSE s

\* str.strip()
Strip(s) == RStrip(LStrip(s))

\* str.split(sep), sep one character
RECURSIVE Split(_, _)
Split(s, sep) ==
    IF \E i \in 1..Len(s) : s[i] = sep
    THEN LET i == CHOOSE j \in 1..Len(s) :
                     s[j] = sep /\ \A k \in 1..(j - 1) : s[k] # sep
         IN << SubSeq(s, 1, i - 1) >> \o Split(SubSeq(s, i + 1, Len(s)), sep)
    ELSE << s >>

\* "".join(filter(str.isdigit, s))
DigitsOf(s) == SelectSeq(s, LAMBDA c : c \in Digits)

RECURSIVE IntOfDigits(_)
IntOfDigits(s) ==
    IF s = << >> THEN 0
    ELSE 10 * IntOfDigits(SubSeq(s, 1, Len(s) - 1)) + DigitVal(s[Len(s)])

\* int(s) of a string: surrounding blanks and one sign are accepted, then
\* digits only; anything else is a ValueError (ok = FALSE)
PyInt(s) ==
    LET t == Strip(s)
        signed == t # << >> /\ t[1] \in {"-", "+"}
        body == IF signed THEN Tail(t) ELSE t
    IN  IF body # << >> /\ \A i \in 1..Len(body) : body[i] \in Digits
        THEN [ok |-> TRUE,
              v |-> IF signed /\ t[1] = "-" THEN 0 - IntOfDigits(body)
                    ELSE IntOfDigits(body)]
        ELSE [ok |-> FALSE]

\* str(n) of a natural number
RECURSIVE StrOfNat(_)
StrOfNat(n) ==
    IF n < 10 THEN << DigitChar(n) >>
    ELSE StrOfNat(n \div 10) \o << DigitChar(n % 10) >>

\* str(v), f"{v}"
PyStr(v) ==
    CASE v.t = "str" -> v.s
      [] v.t = "num" -> IF v.n < 0 THEN << "-" >> \o StrOfNat(0 - v.n)
                        ELSE StrOfNat(v.n)
      [] OTHER -> << "N", "o", "n", "e" >>

-----------------------------------------------------------------------------
(* Module constants *)

ALLOWED_FARE_NAMES ==
    { << "e", "k", "o", "n", "o", "m" >>,
      << "e", "k", "o", "n", "o", "m", "+" >>,
      << "b", "a", "z", "o", "v", "y", "j" >>,
      << "v", "a", "g", "o", "n", "-", "b", "i", "s", "t", "r", "o" >> }

MAX_TRAVEL_MINUTES == 4 * 60 + 30

WeekdayNames ==
    << "Monday", "Tuesday", "Wednesday", "Thursday", "Friday", "Saturday", "Sunday" >>

\* date.strftime("%A"), dates counted in days from a Monday
WeekdayOf(day) == WeekdayNames[(day % 7) + 1]

-----------------------------------------------------------------------------
(* _extract_min_price *)

NameKeys == << "service", "type", "tariffType", "typeLoc", "category" >>

\* lines 155-161: the set of trimmed, lower-cased, non-empty name candidates
NormalizedNames(car) ==
    LET name_candidates == [i \in 1..Len(NameKeys) |->
                               PyStr(GetDefault(car[NameKeys[i]], Str(<< >>)))]
    IN  { Lower(Strip(name_candidates[i])) :
            i \in { j \in 1..Len(NameKeys) : name_candidates[j] # << >> } }

\* the class filter accepting every named class
FareAllowed_AnyClass(car) == NormalizedNames(car) # {}

\* line 162
FareAllowed(car) == NormalizedNames(car) \cap ALLOWED_FARE_NAMES # {}

\* line 164
TariffOf(car) ==
    Or(Or(Get(car.tariff), Get(car.tariffValue)), Get(car.tariffFull))

\* float(tariff): a number as it is, a string as int() reads it (prices are
\* whole numbers here); ok = FALSE for the TypeError/ValueError of line 169
PyFloat(v) ==
    CASE v.t = "num" -> [ok |-> TRUE, v |-> v.n]
      [] v.t = "str" -> PyInt(v.s)
      [] OTHER -> [ok |-> FALSE]

\* lines 162-172: one iteration of the loop over cars
ExtractStep(min_price_in, car) ==
    IF ~FareAllowed(car) THEN min_price_in
    ELSE LET tariff == TariffOf(car)
         IN  IF tariff = None THEN min_price_in
             ELSE LET price == PyFloat(tariff)
                  IN  IF ~price.ok THEN min_price_in
                      ELSE IF min_price_in = None \/ price.v < min_price_in.n
                           THEN Num(price.v)
                           ELSE min_price_in

RECURSIVE ExtractFrom(_, _)
ExtractFrom(min_price_in, rest) ==
    IF rest = << >> THEN min_price_in
    ELSE ExtractFrom(ExtractStep(min_price_in, Head(rest)), Tail(rest))

\* _extract_min_price(cars): None or Num(price)
ExtractMinPrice(cs) == ExtractFrom(None, cs)

-----------------------------------------------------------------------------
(* _parse_travel_minutes *)

\* None or Num(minutes)
ParseTravelMinutes(raw) ==
    IF ~Truthy(raw) THEN None
    ELSE IF raw.t = "num" THEN Num(raw.n)
    ELSE LET s == PyStr(raw)
         IN  IF \E i \in 1..Len(s) : s[i] = ":"
             THEN LET parts == Split(s, ":")
                  IN  IF Len(parts) \in {2, 3}
                      THEN LET hours == PyInt(parts[1])
                               minutes == PyInt(parts[2])
                           IN  IF hours.ok /\ minutes.ok
                               THEN Num(hours.v * 60 + minutes.v)
                               ELSE None
                      ELSE None
             ELSE LET r == PyInt(s)
                  IN  IF r.ok THEN Num(r.v) ELSE None

-----------------------------------------------------------------------------
(* _combine_date_time *)

\* dt.datetime.strptime(date_str, DATE_FORMAT)
Strptime(date_str) ==
    IF date_str.t = "date" /\ date_str.fmt = "dmy"
    THEN [ok |-> TRUE, day |-> date_str.day] ELSE [ok |-> FALSE]

\* dt.date.fromisoformat(date_str)
FromIsoFormat(date_str) ==
    IF date_str.t = "date" /\ date_str.fmt = "iso"
    THEN [ok |-> TRUE, day |-> date_str.day] ELSE [ok |-> FALSE]

\* [raised |-> TRUE] for the ValueError/TypeError that leaves the function,
\* else the datetime
CombineDateTime(date_str, time_str) ==
    LET first == Strptime(date_str)
        date == IF first.ok THEN first ELSE FromIsoFormat(date_str)
        parts == Split(time_str, ":")
    IN  IF ~date.ok \/ Len(parts) # 2 THEN [raised |-> TRUE]
        ELSE LET hour == PyInt(parts[1])
                 minute == PyInt(parts[2])
             IN  IF hour.ok /\ minute.ok /\ hour.v \in 0..23 /\ minute.v \in 0..59
                 THEN [raised |-> FALSE,
                       dt |-> [date |-> date.day, hour |-> hour.v, minute |-> minute.v]]
                 ELSE [raised |-> TRUE]

-----------------------------------------------------------------------------
(* fetch_day *)

EmptyMap == << >>

\* a dict that keeps the value a key already has
Put_KeepFirst(d, key, value) ==
    IF key \in DOMAIN d THEN d
    ELSE [k \in (DOMAIN d) \cup {key} |-> IF k = key THEN value ELSE d[k]]

\* d[key] = value on a dict
Put(d, key, value) ==
    [k \in (DOMAIN d) \cup {key} |-> IF k = key THEN value ELSE d[k]]

\* the category filter with < in place of <=
NumberFilter_StrictBelow(tr) ==
    LET number == Get(tr.number)
    IN  IF ~Truthy(number) THEN "skip_number"
        ELSE IF number.t # "str" THEN "raise"
        ELSE IF DigitsOf(number.s) = << >> THEN "raise"
        ELSE IF IntOfDigits(DigitsOf(number.s)) < 700 THEN "skip_category"
        ELSE "pass"

\* lines 89-93: "pass", or the way the listing leaves the iteration
NumberFilter(tr) ==
    LET number == Get(tr.number)
    IN  IF ~Truthy(number) THEN "skip_number"
        ELSE IF number.t # "str" THEN "raise"
        ELSE IF DigitsOf(number.s) = << >> THEN "raise"
        ELSE IF IntOfDigits(DigitsOf(number.s)) <= 700 THEN "skip_category"
        ELSE "pass"

\* lines 95-98
TravelFilter(tr) ==
    LET travel_time == Or(Get(tr.timeInWay), Get(tr.timeInWayMin))
        minutes == ParseTravelMinutes(travel_time)
    IN  IF minutes = None \/ minutes.n > MAX_TRAVEL_MINUTES
        THEN "skip_travel" ELSE "pass"

\* lines 100-113
EmitQuote(seg, tr, deps) ==
    LET depart_str == PyStr(Get(tr.time0))
        depart_date_str == Or(Get(tr.date0), Get(seg.date0))
    IN  IF ~Truthy(depart_date_str) \/ depart_str = << >>
        THEN [where |-> "skip_departure", departures |-> deps]
        ELSE LET depart_dt == CombineDateTime(depart_date_str, depart_str)
             IN  IF depart_dt.raised THEN [where |-> "raise", departures |-> deps]
                 ELSE LET mp == ExtractMinPrice(tr.cars)
                      IN  IF mp = None
                          THEN [where |-> "skip_price", departures |-> deps]
                          ELSE [where |-> "emit",
                                departures |->
                                    Put(deps, depart_str,
                                        [departure |-> depart_dt.dt,
                                         weekday |-> WeekdayOf(depart_dt.dt.date),
                                         price |-> mp.n])]

\* lines 89-113: one iteration of the loop over a segment's listings; where
\* is the continue taken, "emit" (line 113) or "raise" (an exception leaves
\* fetch_day)
ProcessTrain(seg, tr, deps) ==
    IF NumberFilter(tr) # "pass"
    THEN [where |-> NumberFilter(tr), departures |-> deps]
    ELSE IF TravelFilter(tr) # "pass"
    THEN [where |-> TravelFilter(tr), departures |-> deps]
    ELSE EmitQuote(seg, tr, deps)

\* line 88: the loop over a segment's listings, up to an exception (the
\* accumulator is bound by a set constructor so that it is evaluated once
\* per iteration)
FetchListStep(seg, tr, acc) ==
    LET r == ProcessTrain(seg, tr, acc.departures)
    IN  [raised |-> r.where = "raise", departures |-> r.departures]

RECURSIVE FetchList(_, _, _)
FetchList(seg, list, acc) ==
    IF list = << >> THEN acc
    ELSE CHOOSE res \in
             { IF a.raised THEN a
               ELSE FetchList(seg, Tail(list), FetchListStep(seg, Head(list), a)) :
                 a \in {acc} } : TRUE

\* line 87: the loop over the segments
RECURSIVE FetchSegments(_, _)
FetchSegments(tp, acc) ==
    IF tp = << >> THEN acc
    ELSE CHOOSE res \in
             { IF a.raised THEN a
               ELSE FetchSegments(Tail(tp), FetchList(Head(tp), Head(tp).list, a)) :
                 a \in {acc} } : TRUE

\* fetch_day: outcome "HTTPError" (raise_for_status), "Error" (another
\* exception leaves the function) or "ok" with the returned dict
FetchDay(response) ==
    IF response.http_error THEN [outcome |-> "HTTPError", departures |-> EmptyMap]
    ELSE LET r == FetchSegments(response.tp, [raised |-> FALSE, departures |-> EmptyMap])
         IN  IF r.raised THEN [outcome |-> "Error", departures |-> EmptyMap]
             ELSE [outcome |-> "ok", departures |-> r.departures]

-----------------------------------------------------------------------------
(* consolidate_quotes *)

\* the items of a dict in one fixed order
RECURSIVE SetToSeq(_)
SetToSeq(S) ==
    IF S = {} THEN << >>
    ELSE CHOOSE r \in { << x >> \o SetToSeq(S \ {x}) : x \in { CHOOSE y \in S : TRUE } } : TRUE

\* lines 349-351 for one (weekday, dep_time) item; replaced counts the times
\* line 351 overwrote a cell
ConsolidateStep(acc, it, quotes) ==
    LET weekday == it[1]
        dep_time == it[2]
        quote == quotes[weekday][dep_time]
        row == IF dep_time \in DOMAIN acc.aggregated
               THEN acc.aggregated[dep_time] ELSE EmptyMap
        existing == IF weekday \in DOMAIN row THEN row[weekday] ELSE None
        stored == [aggregated |-> Put(acc.aggregated, dep_time, Put(row, weekday, quote)),
                   replaced |-> IF existing = None THEN acc.replaced
                                ELSE acc.replaced + 1]
    IN  IF existing = None THEN stored
        ELSE IF quote.price < existing.price THEN stored
        ELSE acc

\* lines 347-348: the loops over the items (the accumulator is bound by a
\* set constructor so that it is evaluated once per iteration)
RECURSIVE ConsolidateFrom(_, _, _, _)
ConsolidateFrom(acc, i, items, quotes) ==
    IF i > Len(items) THEN acc
    ELSE ConsolidateFrom(
             CHOOSE r \in { ConsolidateStep(a, items[i], quotes) : a \in {acc} } : TRUE,
             i + 1, items, quotes)

ConsolidateQuotes(quotes) ==
    ConsolidateFrom([aggregated |-> EmptyMap, replaced |-> 0], 1,
                    SetToSeq({ << w, d >> \in (DOMAIN quotes) \X UNION { DOMAIN quotes[w] : w \in DOMAIN quotes } :
                                 d \in DOMAIN quotes[w] }),
                    quotes)

\* lines 368-374: the argument main passes to consolidate_quotes
WithWeekday(quotes) ==
    [weekday \in DOMAIN quotes |->
        [dep \in DOMAIN quotes[weekday] |->
            [quotes[weekday][dep] EXCEPT !.weekday = weekday]]]

-----------------------------------------------------------------------------
(* Inputs: the fields of a listing and of a fare-class entry *)

Unset == [t |-> "unset"]

S_ekonom_padded == << " ", "E", "k", "o", "n", "o", "m", " " >>
S_ekonom_plus == << "e", "k", "o", "n", "o", "m", "+" >>
S_bazovyj_upper == << "B", "A", "Z", "O", "V", "Y", "J" >>
S_lux == << "L", "u", "x" >>
S_abc == << "a", "b", "c" >>

\* the name fields of a fare-class entry
CarNameInputs ==
    { [service |-> Str(S_ekonom_padded), type |-> Absent, category |-> Absent],
      [service |-> Str(S_lux), type |-> Absent, category |-> Absent],
      [service |-> Str(S_lux), type |-> Str(S_bazovyj_upper), category |-> Absent],
      [service |-> None, type |-> Absent, category |-> Str(S_ekonom_plus)] }

\* the tariff fields of a fare-class entry
CarTariffInputs ==
    { [tariff |-> Num(3000), tariffValue |-> Absent, tariffFull |-> Absent],
      [tariff |-> Str(<< "1" >>), tariffValue |-> Absent, tariffFull |-> Absent],
      [tariff |-> Str(S_abc), tariffValue |-> Num(2500), tariffFull |-> Absent],
      [tariff |-> Str(S_abc), tariffValue |-> Absent, tariffFull |-> Absent],
      [tariff |-> Num(0), tariffValue |-> Str(<< " ", "2", "0", "0", "0" >>), tariffFull |-> Absent],
      [tariff |-> None, tariffValue |-> Str(<< >>), tariffFull |-> Num(4000)],
      [tariff |-> Absent, tariffValue |-> Absent, tariffFull |-> Absent] }

CarInputs ==
    { [service |-> n.service, type |-> n.type, tariffType |-> Absent,
       typeLoc |-> Absent, category |-> n.category,
       tariff |-> f.tariff, tariffValue |-> f.tariffValue, tariffFull |-> f.tariffFull] :
        n \in CarNameInputs, f \in CarTariffInputs }

SeqsUpTo(S, n) == UNION { [1..k -> S] : k \in 0..n }

CarListInputs == SeqsUpTo(CarInputs, MaxCars)

EkonomCar(tariff) ==
    [service |-> Str(S_ekonom_padded), type |-> Absent, tariffType |-> Absent,
     typeLoc |-> Absent, category |-> Absent,
     tariff |-> tariff, tariffValue |-> Absent, tariffFull |-> Absent]

LuxCar(tariff) ==
    [service |-> Str(S_lux), type |-> Absent, tariffType |-> Absent,
     typeLoc |-> Absent, category |-> Absent,
     tariff |-> tariff, tariffValue |-> Absent, tariffFull |-> Absent]

NumberInputs ==
    { Absent, Str(<< >>), Str(<< "A" >>), Num(751),
      Str(<< "7", "0", "0" >>), Str(<< "7", "0", "1" >>),
      Str(<< "7", "A", "0", "0" >>), Str(<< "7", "5", "1", "A" >>) }

\* (timeInWay, timeInWayMin)
TravelInputs ==
    { [timeInWay |-> Str(<< "0", "4", ":", "3", "0" >>), timeInWayMin |-> Absent],
      [timeInWay |-> Str(<< "0", "4", ":", "3", "1" >>), timeInWayMin |-> Absent],
      [timeInWay |-> Str(<< "4", ":", "3", "0", ":", "5", "9" >>), timeInWayMin |-> Absent],
      [timeInWay |-> Str(<< "0", "0", ":", "0", "0" >>), timeInWayMin |-> Absent],
      [timeInWay |-> Str(<< "1", ":", "2", ":", "3", ":", "4" >>), timeInWayMin |-> Absent],
      [timeInWay |-> Str(<< "x", ":", "3", "0" >>), timeInWayMin |-> Absent],
      [timeInWay |-> Str(<< "2", "7", "0" >>), timeInWayMin |-> Absent],
      [timeInWay |-> Str(<< "2", "7", "1" >>), timeInWayMin |-> Absent],
      [timeInWay |-> Absent, timeInWayMin |-> Num(270)],
      [timeInWay |-> Absent, timeInWayMin |-> Num(271)],
      [timeInWay |-> Absent, timeInWayMin |-> Num(0)],
      [timeInWay |-> Absent, timeInWayMin |-> Absent],
      [timeInWay |-> Str(<< >>), timeInWayMin |-> Num(200)],
      [timeInWay |-> None, timeInWayMin |-> Str(S_abc)] }

T0700 == << "0", "7", ":", "0", "0" >>
T0900 == << "0", "9", ":", "0", "0" >>

Time0Inputs ==
    { Absent, Str(<< >>), Str(T0700), Str(T0900),
      Str(<< "2", "5", ":", "0", "0" >>), Str(<< "7" >>) }

Date0Inputs == { Absent, DateStr("dmy", 0), DateStr("iso", 1), Str(S_abc) }

SegmentInputs == { [date0 |-> Absent], [date0 |-> DateStr("dmy", 7)] }

FilterCarLists ==
    { << >>, << EkonomCar(Num(3000)) >>, << LuxCar(Num(1)) >>,
      << EkonomCar(Num(3000)), LuxCar(Num(1)) >> }

Train(number, travel, time0, date0, cs) ==
    [number |-> number, timeInWay |-> travel.timeInWay,
     timeInWayMin |-> travel.timeInWayMin, time0 |-> time0, date0 |-> date0,
     cars |-> cs]

\* listings that vary every field the filters read
FilterTrains ==
    { Train(n, tv, t0, d0, cs) :
        n \in NumberInputs, tv \in TravelInputs, t0 \in Time0Inputs,
        d0 \in Date0Inputs, cs \in FilterCarLists }

GoodTravel == [timeInWay |-> Str(<< "0", "4", ":", "3", "0" >>), timeInWayMin |-> Absent]
GoodNumber == Str(<< "7", "5", "1", "A" >>)

\* listings that pass the filters and vary the fare-class entries
PriceTrains ==
    { Train(GoodNumber, GoodTravel, Str(T0700), DateStr("dmy", 0), cs) :
        cs \in CarListInputs }

Quote(day, hour, minute, price) ==
    [departure |-> [date |-> day, hour |-> hour, minute |-> minute],
     weekday |-> WeekdayOf(day), price |-> price]

\* the dict fetch_day has built when it reaches a listing
PriorDepartures == { EmptyMap, (T0700 :> Quote(0, 7, 0, 1234)) }

-----------------------------------------------------------------------------
(* Values of the variables a specification does not use *)

IdleMain ==
    /\ pc = "idle" /\ start_date = 0 /\ days = 0 /\ offset = 0
    /\ quotes_by_day = EmptyMap /\ consolidated = EmptyMap
    /\ stderr = << >> /\ output_written = FALSE /\ exit_code = -1
    /\ fetched = << >> /\ writes = EmptyMap /\ replaced = 0

IdleTrain ==
    /\ segment = [date0 |-> Absent] /\ train = Unset
    /\ departures = EmptyMap /\ where = "idle" /\ min_price = Unset

IdleDay == payload = Unset /\ day_result = Unset

-----------------------------------------------------------------------------
(* One iteration of fetch_day's loop over listings, on every input *)

TrainInit ==
    /\ IdleMain /\ IdleDay
    /\ where = "start" /\ min_price = Unset
    /\ departures \in PriorDepartures
    /\ \/ train \in FilterTrains /\ segment \in SegmentInputs
       \/ train \in PriceTrains /\ segment = [date0 |-> Absent]

\* lines 89-113 applied to the listing; min_price is the value line 108
\* computes, when the listing gets there
ProcessTrainStep ==
    /\ where = "start"
    /\ LET r == ProcessTrain(segment, train, departures)
       IN  /\ where' = r.where
           /\ departures' = r.departures
           /\ min_price' = IF r.where \in {"skip_price", "emit"}
                           THEN ExtractMinPrice(train.cars) ELSE Unset
    /\ UNCHANGED << segment, train >>
    /\ UNCHANGED mainVars
    /\ UNCHANGED dayVars

TrainNext == ProcessTrainStep

SpecTrain == TrainInit /\ [][TrainNext]_vars

-----------------------------------------------------------------------------
(* Claims about one listing *)

SetMin(S) == CHOOSE x \in S : \A y \in S : x <= y

GoodListing(number, travel, cs) ==
    Train(number, travel, Str(T0700), DateStr("dmy", 0), cs)

\* the listing has no identifying number, or the digits of its identifier
\* read as an integer are at most 700
C4_NoNumberOrLow(tr) ==
    \/ tr.number \in {Absent, None, Str(<< >>)}
    \/ /\ tr.number.t = "str"
       /\ DigitsOf(tr.number.s) # << >>
       /\ IntOfDigits(DigitsOf(tr.number.s)) <= 700

\* C4: a listing with no identifying number, or whose identifier's digits
\* read as an integer are <= 700, never reaches the result of fetch_day:
\* processing it leaves departures as it was and does not reach line 113,
\* whatever its other fields are.
C4_CategoryFilter ==
    [][C4_NoNumberOrLow(train) => departures' = departures /\ where' # "emit"]_vars

\* a listing numbered exactly 700, fit to be quoted in every other field,
\* was dropped by the category filter
C4_Witness ==
    /\ train = GoodListing(Str(<< "7", "0", "0" >>), GoodTravel, << EkonomCar(Num(3000)) >>)
    /\ where = "skip_category"

\* the duration a travel-time field states: minutes of "HH:MM[:SS]" or of a
\* plain integer
C5_FieldMinutes(v) ==
    IF v.t = "num" THEN [ok |-> TRUE, v |-> v.n]
    ELSE IF v.t # "str" THEN [ok |-> FALSE]
    ELSE IF \E i \in 1..Len(v.s) : v.s[i] = ":"
    THEN LET parts == Split(v.s, ":")
         IN  IF Len(parts) \in {2, 3} /\ PyInt(parts[1]).ok /\ PyInt(parts[2]).ok
             THEN [ok |-> TRUE, v |-> PyInt(parts[1]).v * 60 + PyInt(parts[2]).v]
             ELSE [ok |-> FALSE]
    ELSE PyInt(v.s)

\* the duration of a listing: its timeInWay when that is given, else its
\* integer-minutes field
C5_Duration(tr) ==
    IF tr.timeInWay \in {Absent, None, Str(<< >>)}
    THEN C5_FieldMinutes(Get(tr.timeInWayMin))
    ELSE C5_FieldMinutes(tr.timeInWay)

\* C5: fetch_day never emits a quote for a listing whose travel duration
\* exceeds 270 minutes or cannot be parsed, and the duration filter does not
\* discard a listing whose duration is 270 minutes or less.
C5_DurationFilter ==
    where # "start" =>
        /\ (~C5_Duration(train).ok \/ C5_Duration(train).v > 270) => where # "emit"
        /\ (C5_Duration(train).ok /\ C5_Duration(train).v <= 270) => where # "skip_travel"

\* the part of C5 the code keeps: no quote above 270 minutes or without a
\* parsed duration, and a duration the code parsed to <= 270 is not dropped
C5_ParsedDurationFilter ==
    where # "start" =>
        LET minutes == ParseTravelMinutes(Or(Get(train.timeInWay), Get(train.timeInWayMin)))
        IN  /\ (minutes = None \/ minutes.n > 270) => where # "emit"
            /\ (minutes # None /\ minutes.n <= 270) => where # "skip_travel"

\* an entry's class: one of its name fields, trimmed and lower-cased, is in
\* the allow-set
C6_Qualifies(car) ==
    \E i \in 1..Len(NameKeys) :
        /\ car[NameKeys[i]].t = "str"
        /\ Lower(Strip(car[NameKeys[i]].s)) \in ALLOWED_FARE_NAMES

\* the entries of the listing that qualify and carry a tariff
C6_Priced(cs) ==
    { i \in 1..Len(cs) : C6_Qualifies(cs[i]) /\ PyFloat(TariffOf(cs[i])).ok }

\* C6: _extract_min_price returns the minimum tariff over exactly the
\* entries whose trimmed, lower-cased class label is in the allow-set;
\* entries of other classes never affect it; when no entry qualifies the
\* result is None and fetch_day emits no quote for the listing.
C6_MinOverAllowed ==
    where \in {"skip_price", "emit"} =>
        LET Q == C6_Priced(train.cars)
        IN  /\ Q = {} => min_price = None /\ where = "skip_price"
            /\ Q # {} =>
                 /\ min_price = Num(SetMin({ PyFloat(TariffOf(train.cars[i])).v : i \in Q }))
                 /\ where = "emit"
                 /\ departures[PyStr(train.time0)].price = min_price.n

\* a quote was emitted although an entry of another class was cheaper
C6_Witness ==
    /\ where = "emit"
    /\ \E i \in 1..Len(train.cars) :
          /\ ~C6_Qualifies(train.cars[i])
          /\ PyFloat(TariffOf(train.cars[i])).ok
          /\ PyFloat(TariffOf(train.cars[i])).v < min_price.n

C9_Numeric(v) == v.t = "num" \/ (v.t = "str" /\ PyInt(v.s).ok)

C9_Candidates(car) == << Get(car.tariff), Get(car.tariffValue), Get(car.tariffFull) >>

\* the first candidate field whose value is non-null and numeric
C9_FirstNumeric(car) ==
    LET c == C9_Candidates(car)
        i == CHOOSE j \in 1..3 : C9_Numeric(c[j]) /\ \A k \in 1..(j - 1) : ~C9_Numeric(c[k])
    IN  PyFloat(c[i]).v

C9_HasNumeric(car) == \E j \in 1..3 : C9_Numeric(C9_Candidates(car)[j])

\* C9: the tariff of a qualifying entry is the first of tariff, tariffValue,
\* tariffFull whose value is non-null and numeric, and an entry is skipped
\* only when none of the three is numeric: the result is the minimum of
\* these tariffs over the qualifying entries.
C9_FirstNumericWins ==
    where \in {"skip_price", "emit"} =>
        LET Q == { i \in 1..Len(train.cars) :
                     FareAllowed(train.cars[i]) /\ C9_HasNumeric(train.cars[i]) }
        IN  IF Q = {} THEN min_price = None
            ELSE min_price = Num(SetMin({ C9_FirstNumeric(train.cars[i]) : i \in Q }))

-----------------------------------------------------------------------------
(* One whole call of fetch_day, on every response of a few listings *)

DayDate == DateStr("dmy", 0)

DayListing(time0, date0, number, cs) ==
    Train(number, GoodTravel, Str(time0), date0, cs)

\* two listings at 07:00 with different prices, one at 09:00, one at 07:00
\* that a filter discards, and one whose departure date cannot be parsed
DayTrains ==
    { DayListing(T0700, DayDate, GoodNumber, << EkonomCar(Num(3000)) >>),
      DayListing(T0700, Absent, GoodNumber, << EkonomCar(Num(2000)) >>),
      DayListing(T0900, DayDate, GoodNumber, << EkonomCar(Num(2500)) >>),
      DayListing(T0700, DayDate, Str(<< "7", "0", "0" >>), << EkonomCar(Num(1000)) >>),
      DayListing(T0700, Str(S_abc), GoodNumber, << EkonomCar(Num(3000)) >>) }

DaySegments ==
    { [date0 |-> DayDate, list |-> l] : l \in SeqsUpTo(DayTrains, MaxListings) }

DayResponses ==
    { [http_error |-> TRUE, tp |-> << >>] }
    \cup { [http_error |-> FALSE, tp |-> tp] : tp \in SeqsUpTo(DaySegments, 2) }

DayInit ==
    /\ IdleMain /\ IdleTrain
    /\ payload \in DayResponses
    /\ day_result = Unset

FetchDayCall ==
    /\ day_result = Unset
    /\ day_result' = FetchDay(payload)
    /\ UNCHANGED payload
    /\ UNCHANGED mainVars
    /\ UNCHANGED trainVars

DayNext == FetchDayCall

SpecDay == DayInit /\ [][DayNext]_vars

\* the listings of a response in the order fetch_day visits them, each with
\* its segment
RECURSIVE Flatten(_)
Flatten(tp) ==
    IF tp = << >> THEN << >>
    ELSE [i \in 1..Len(Head(tp).list) |-> [seg |-> Head(tp), tr |-> Head(tp).list[i]]]
         \o Flatten(Tail(tp))

\* the listing passes every filter when it is processed on its own
C7_Passes(e) == ProcessTrain(e.seg, e.tr, EmptyMap).where = "emit"

C7_Key(e) == PyStr(Get(e.tr.time0))

C7_QuoteOf(e) == ProcessTrain(e.seg, e.tr, EmptyMap).departures[C7_Key(e)]

\* C7: in the dict fetch_day returns, each key is the time-of-day of some
\* listing that passes all filters, and its quote is that of the last such
\* listing in response order, whatever the prices; listings that a filter
\* discards neither overwrite nor remove a quote.
C7_LastWriteWins ==
    (day_result # Unset /\ day_result.outcome = "ok") =>
        LET flat == Flatten(payload.tp)
            passing(k) == { i \in 1..Len(flat) : C7_Passes(flat[i]) /\ C7_Key(flat[i]) = k }
            keys == { C7_Key(flat[i]) : i \in { j \in 1..Len(flat) : C7_Passes(flat[j]) } }
        IN  /\ DOMAIN day_result.departures = keys
            /\ \A k \in keys :
                  day_result.departures[k] =
                      C7_QuoteOf(flat[CHOOSE i \in passing(k) : \A j \in passing(k) : j <= i])

\* two passing listings share a key, the later one is the dearer and is the
\* one returned, and a listing discarded after them has the same time-of-day
C7_Witness ==
    /\ day_result # Unset /\ day_result.outcome = "ok"
    /\ LET flat == Flatten(payload.tp)
       IN  \E i, j, k \in 1..Len(flat) :
              /\ i < j /\ j < k
              /\ C7_Passes(flat[i]) /\ C7_Passes(flat[j]) /\ ~C7_Passes(flat[k])
              /\ C7_Key(flat[i]) = C7_Key(flat[j]) /\ C7_Key(flat[k]) = C7_Key(flat[j])
              /\ C7_QuoteOf(flat[i]).price < C7_QuoteOf(flat[j]).price
              /\ day_result.departures[C7_Key(flat[j])] = C7_QuoteOf(flat[j])

-----------------------------------------------------------------------------
(* main *)

WeekdaySet == { WeekdayNames[i] : i \in 1..7 }

\* the date that does not advance with the loop
CurrentDate_NoOffset(start, off) == start

\* line 360
CurrentDate(start, off) == start + off

\* the assignment that merges a date into what the weekday already holds
StoreDay_Merge(quotes, weekday, deps) ==
    IF weekday \notin DOMAIN quotes THEN Put(quotes, weekday, deps)
    ELSE Put(quotes, weekday,
             [k \in (DOMAIN quotes[weekday]) \cup (DOMAIN deps) |->
                 IF k \in DOMAIN deps THEN deps[k] ELSE quotes[weekday][k]])

\* line 366: quotes_by_day[weekday] = departures
StoreDay(quotes, weekday, deps) == Put(quotes, weekday, deps)

MainListing(date, time0, price) ==
    Train(GoodNumber, GoodTravel, Str(time0), DateStr("dmy", date),
          << EkonomCar(Num(price)) >>)

\* what the timetable endpoint may answer for a date: an HTTP error, one
\* train at 07:00, a cheaper train at 07:00 and one at 09:00, or a response
\* with a listing whose departure date cannot be parsed
Responses(date) ==
    { [http_error |-> TRUE, tp |-> << >>],
      [http_error |-> FALSE,
       tp |-> << [date0 |-> Absent, list |-> << MainListing(date, T0700, 2500) >>] >>],
      [http_error |-> FALSE,
       tp |-> << [date0 |-> Absent,
                  list |-> << MainListing(date, T0700, 2200),
                              MainListing(date, T0900, 2300) >>] >>],
      [http_error |-> FALSE,
       tp |-> << [date0 |-> Absent,
                  list |-> << MainListing(date, T0700, 2200),
                              Train(GoodNumber, GoodTravel, Str(T0900), Str(S_abc),
                                    << EkonomCar(Num(2200)) >>) >>] >> ] }

\* a Monday and a Thursday
StartDates == {0, 3}

Init ==
    /\ IdleTrain /\ IdleDay
    /\ pc = "loop"
    /\ start_date \in StartDates
    /\ days \in 0..MaxDays
    /\ offset = 0
    /\ quotes_by_day = EmptyMap
    /\ consolidated = EmptyMap
    /\ replaced = 0
    /\ stderr = << >>
    /\ output_written = FALSE
    /\ exit_code = -1
    /\ fetched = << >>
    /\ writes = [w \in WeekdaySet |-> 0]

\* lines 359-366, fetch_day returns
FetchSucceeds ==
    /\ pc = "loop" /\ offset < days
    /\ \E response \in Responses(CurrentDate(start_date, offset)) :
          \E current_date \in { CurrentDate(start_date, offset) }, r \in { FetchDay(response) } :
              /\ r.outcome = "ok"
              /\ quotes_by_day' = StoreDay(quotes_by_day, WeekdayOf(current_date), r.departures)
              /\ writes' = [writes EXCEPT ![WeekdayOf(current_date)] = @ + 1]
              /\ fetched' = Append(fetched, [outcome |-> "ok", date |-> current_date,
                                             departures |-> r.departures])
    /\ offset' = offset + 1
    /\ UNCHANGED << pc, start_date, days, consolidated, replaced, stderr,
                    output_written, exit_code >>
    /\ UNCHANGED trainVars
    /\ UNCHANGED dayVars

\* lines 363-365, fetch_day raises requests.HTTPError
FetchHTTPError ==
    /\ pc = "loop" /\ offset < days
    /\ \E response \in Responses(CurrentDate(start_date, offset)) :
          \E current_date \in { CurrentDate(start_date, offset) }, r \in { FetchDay(response) } :
              /\ r.outcome = "HTTPError"
              /\ stderr' = Append(stderr, current_date)
              /\ fetched' = Append(fetched, [outcome |-> "HTTPError", date |-> current_date,
                                             departures |-> EmptyMap])
    /\ offset' = offset + 1
    /\ UNCHANGED << pc, start_date, days, quotes_by_day, consolidated, replaced,
                    output_written, exit_code, writes >>
    /\ UNCHANGED trainVars
    /\ UNCHANGED dayVars

\* line 362, fetch_day raises an exception that is no HTTPError: it leaves
\* main, nothing is written and the interpreter exits with status 1
FetchRaises ==
    /\ pc = "loop" /\ offset < days
    /\ \E response \in Responses(CurrentDate(start_date, offset)) :
          \E current_date \in { CurrentDate(start_date, offset) }, r \in { FetchDay(response) } :
              /\ r.outcome = "Error"
              /\ fetched' = Append(fetched, [outcome |-> "Error", date |-> current_date,
                                             departures |-> EmptyMap])
    /\ pc' = "aborted"
    /\ exit_code' = 1
    /\ UNCHANGED << start_date, days, offset, quotes_by_day, consolidated, replaced,
                    stderr, output_written, writes >>
    /\ UNCHANGED trainVars
    /\ UNCHANGED dayVars

\* lines 368-379, after the loop
Finish ==
    /\ pc = "loop" /\ offset >= days
    /\ LET c == ConsolidateQuotes(WithWeekday(quotes_by_day))
       IN  /\ consolidated' = c.aggregated
           /\ replaced' = c.replaced
    /\ output_written' = TRUE
    /\ exit_code' = 0
    /\ pc' = "done"
    /\ UNCHANGED << start_date, days, offset, quotes_by_day, stderr, fetched, writes >>
    /\ UNCHANGED trainVars
    /\ UNCHANGED dayVars

Next == FetchSucceeds \/ FetchHTTPError \/ FetchRaises \/ Finish

Spec == Init /\ [][Next]_vars

-----------------------------------------------------------------------------
(* Claims about main *)

\* the offsets whose date fell on the weekday and was fetched successfully
OkDates(wd) ==
    { i \in 1..Len(fetched) :
        fetched[i].outcome = "ok" /\ WeekdayOf(fetched[i].date) = wd }

\* every time-of-day some fetched date quoted
QuotedTimes == UNION { DOMAIN fetched[i].departures : i \in 1..Len(fetched) }

HasCell(dep, wd) == dep \in DOMAIN consolidated /\ wd \in DOMAIN consolidated[dep]

\* C1: after main has processed the range, every (time-of-day, weekday)
\* cell holds the minimum price among the quotes fetch_day returned for that
\* time-of-day over all successfully fetched dates of that weekday.
C1_MinOverAllDates ==
    pc = "done" =>
        \A wd \in WeekdaySet, dep \in QuotedTimes :
            LET I == { i \in OkDates(wd) : dep \in DOMAIN fetched[i].departures }
            IN  I # {} =>
                  /\ HasCell(dep, wd)
                  /\ consolidated[dep][wd].price =
                         SetMin({ fetched[i].departures[dep].price : i \in I })

HTTPFailures == { i \in 1..Len(fetched) : fetched[i].outcome = "HTTPError" }

\* C2: once fetch_day has failed for a date with an HTTP error, the failure
\* is on standard error, the accumulated results hold exactly what the
\* successful dates stored (the failed date adds nothing and removes
\* nothing), and the run ends with every date of the range fetched, the
\* file written and exit code 0.
C2_HTTPErrorTolerated ==
    HTTPFailures # {} =>
        /\ \A i \in HTTPFailures : \E j \in 1..Len(stderr) : stderr[j] = fetched[i].date
        /\ \A wd \in WeekdaySet :
              IF OkDates(wd) = {} THEN wd \notin DOMAIN quotes_by_day
              ELSE /\ wd \in DOMAIN quotes_by_day
                   /\ quotes_by_day[wd] =
                          fetched[CHOOSE i \in OkDates(wd) : \A j \in OkDates(wd) : j <= i].departures
        /\ pc # "loop" =>
              /\ Len(fetched) = days
              /\ \A i \in 1..Len(fetched) : fetched[i].outcome \in {"ok", "HTTPError"}
              /\ output_written
              /\ exit_code = 0

\* what C2 says of the HTTP failure itself, in the runs no other exception ends
C2_HTTPErrorSkipped ==
    (HTTPFailures # {} /\ pc # "aborted") =>
        /\ Len(stderr) = Cardinality(HTTPFailures)
        /\ \A wd \in WeekdaySet :
              IF OkDates(wd) = {} THEN wd \notin DOMAIN quotes_by_day
              ELSE /\ wd \in DOMAIN quotes_by_day
                   /\ quotes_by_day[wd] =
                          fetched[CHOOSE i \in OkDates(wd) : \A j \in OkDates(wd) : j <= i].departures
        /\ pc = "done" => Len(fetched) = days /\ output_written /\ exit_code = 0

\* C3: no listing's content makes fetch_day raise: a listing with a
\* malformed or missing field is discarded, and the loop of main over the
\* dates is never aborted.
C3_MalformedListingDiscarded ==
    /\ pc # "aborted"
    /\ \A i \in 1..Len(fetched) : fetched[i].outcome # "Error"

\* C8: in a run over exactly 7 days beginning on a Monday, each weekday name
\* is assigned as a key of quotes_by_day at most once, and consolidation
\* never replaces a cell.
C8_SevenDaysFromMonday ==
    (days = 7 /\ WeekdayOf(start_date) = "Monday") =>
        /\ \A wd \in WeekdaySet : writes[wd] <= 1
        /\ replaced = 0

\* a finished run of 7 days from a Monday in which every date was fetched
C8_Witness ==
    /\ pc = "done" /\ days = 7 /\ WeekdayOf(start_date) = "Monday"
    /\ \A wd \in WeekdaySet : writes[wd] = 1
    /\ \E dep \in DOMAIN consolidated : DOMAIN consolidated[dep] = WeekdaySet

\* C10: in the final table, the cells of a weekday are exactly the quotes of
\* the last successfully fetched date of that weekday (with the weekday
\* name as their weekday): an earlier date of the same weekday contributes
\* nothing, and a time-of-day quoted only on an earlier one has no cell.
C10_LastDateReplaces ==
    pc = "done" =>
        \A wd \in WeekdaySet :
            IF OkDates(wd) = {}
            THEN \A dep \in DOMAIN consolidated : wd \notin DOMAIN consolidated[dep]
            ELSE LET last == CHOOSE i \in OkDates(wd) : \A j \in OkDates(wd) : j <= i
                     d == fetched[last].departures
                 IN  \A dep \in QuotedTimes \cup DOMAIN consolidated :
                        /\ HasCell(dep, wd) <=> dep \in DOMAIN d
                        /\ dep \in DOMAIN d =>
                              consolidated[dep][wd] = [d[dep] EXCEPT !.weekday = wd]

\* a finished run with two fetched dates of one weekday, where the earlier
\* one quoted a time-of-day that the later one did not, and a lower price
\* for a time-of-day both quoted
C10_Witness ==
    /\ pc = "done"
    /\ \E wd \in WeekdaySet : \E i, j \in OkDates(wd) :
          /\ i < j
          /\ \A k \in OkDates(wd) : k <= j
          /\ \E dep \in DOMAIN fetched[i].departures :
                dep \notin DOMAIN fetched[j].departures /\ ~HasCell(dep, wd)
          /\ \E dep \in DOMAIN fetched[i].departures \cap DOMAIN fetched[j].departures :
                /\ fetched[i].departures[dep].price < fetched[j].departures[dep].price
                /\ consolidated[dep][wd].price = fetched[j].departures[dep].price

====
